---- MODULE Spec2Model ----
(***************************************************************************)
(* Standings tab of the CFB Stat Game (src/app.py): the season standings   *)
(* table and the week-by-week rank trajectory computed from the rows of    *)
(* the "Info" sheet.                                                       *)
(*                                                                         *)
(* A player name is a sequence of one-character strings so that str.strip  *)
(* is computed; a week label is a string; a score is an integer.  A        *)
(* missing cell (NaN) is the empty sequence and a present numeric cell v   *)
(* of a nullable column is <<v>>.                                          *)
(***************************************************************************)
EXTENDS Integers, Sequences, FiniteSets, TLC

VARIABLES raw, info, df, full_cum, rankings, pc, error

vars == <<raw, info, df, full_cum, rankings, pc, error>>

(***************************************************************************)
(* Bounds of the model: the rows the Info sheet may hold.                  *)
(***************************************************************************)
MaxEvents == 3

\* two spellings of one player and a second player
SheetPlayers == {<<"A">>, <<" ", "A", " ">>, <<"B">>}

\* three players
LeaguePlayers == {<<"A">>, <<"B">>, <<"C">>}

SheetWeeks == {"Week 9", "Bowls", "Week 17"}

SheetScores == {1, 2}

SheetRows == [Player : SheetPlayers, Week : SheetWeeks, Score : SheetScores]

LeagueRows == [Player : LeaguePlayers, Week : SheetWeeks, Score : SheetScores]

(***************************************************************************)
(* WEEK_ORDER = [f"Week {i}" for i in range(1, 17)] + ["Bowls"]            *)
(***************************************************************************)
WEEK_ORDER == [i \in 1..16 |-> "Week " \o ToString(i)] \o <<"Bowls">>

\* w in WEEK_ORDER
InWeekOrder(w) == \E i \in 1..Len(WEEK_ORDER) : WEEK_ORDER[i] = w

\* WEEK_ORDER.index(w), 0-based; only evaluated for labels of WEEK_ORDER
WeekIndex(w) == (CHOOSE i \in 1..Len(WEEK_ORDER) : WEEK_ORDER[i] = w) - 1

NaN == <<>>

notna(c) == c # NaN

\* a local variable: v is evaluated once and F applied to its value
Bind(v, F(_)) == CHOOSE r \in {F(x) : x \in {v}} : TRUE

(***************************************************************************)
(* Strings: str.strip and the ordering sorted() and groupby use.           *)
(***************************************************************************)
Whitespace == {" ", "\t", "\n"}

RECURSIVE lstrip(_)
lstrip(s) == IF s # <<>> /\ Head(s) \in Whitespace THEN lstrip(Tail(s)) ELSE s

RECURSIVE rstrip(_)
rstrip(s) ==
    IF s # <<>> /\ s[Len(s)] \in Whitespace
    THEN rstrip(SubSeq(s, 1, Len(s) - 1))
    ELSE s

strip(s) == rstrip(lstrip(s))

\* code point of a character
ord(c) == CASE c = " " -> 32 [] c = "A" -> 65 [] c = "B" -> 66 [] c = "C" -> 67

RECURSIVE StrLess(_, _)
StrLess(s, t) ==
    IF t = <<>> THEN FALSE
    ELSE IF s = <<>> THEN TRUE
    ELSE IF ord(Head(s)) # ord(Head(t)) THEN ord(Head(s)) < ord(Head(t))
    ELSE StrLess(Tail(s), Tail(t))

\* sorted(S) for a set of strings
RECURSIVE sorted(_)
sorted(S) ==
    IF S = {} THEN <<>>
    ELSE LET m == CHOOSE x \in S : \A y \in S \ {x} : StrLess(x, y)
         IN  <<m>> \o sorted(S \ {m})

\* t["Player"].unique(), as a set
unique(t) == {t[i].Player : i \in DOMAIN t}

RECURSIVE SumScore(_, _)
SumScore(t, I) ==
    IF I = {} THEN 0
    ELSE LET i == CHOOSE j \in I : TRUE
         IN  t[i].Score + SumScore(t, I \ {i})

(***************************************************************************)
(* Loading the Info sheet (lines 99-101).                                  *)
(***************************************************************************)
\* the load without line 101
read_info_unstripped(sheet) ==
    [i \in DOMAIN sheet |->
        [Player |-> sheet[i].Player,
         Week   |-> sheet[i].Week,
         Score  |-> sheet[i].Score]]

read_info(sheet) ==
    [i \in DOMAIN sheet |->
        [Player |-> strip(sheet[i].Player),
         Week   |-> sheet[i].Week,
         Score  |-> sheet[i].Score]]

(***************************************************************************)
(* Season standings (lines 125-133).                                       *)
(***************************************************************************)
\* info.groupby("Player")["Score"].sum().reset_index(): keys in sorted order
groupby_sum(t) ==
    LET keys == sorted(unique(t))
    IN  [k \in 1..Len(keys) |->
            [Player |-> keys[k],
             Score  |-> SumScore(t, {i \in DOMAIN t : t[i].Player = keys[k]})]]

\* sort_values("Score", ascending=False)
sort_values_descending(t) ==
    LET n == Len(t)
        perms == {f \in [1..n -> 1..n] : \A i, j \in 1..n : f[i] = f[j] => i = j}
        desc == {f \in perms : \A i \in 1..(n - 1) : t[f[i]].Score >= t[f[i + 1]].Score}
    IN  {[i \in 1..n |-> t[f[i]]] : f \in desc}

\* sort_values("Score", ascending=True): the default sort is not stable, so
\* every arrangement of t with ascending scores is a possible result
sort_values(t) ==
    LET n == Len(t)
        perms == {f \in [1..n -> 1..n] : \A i, j \in 1..n : f[i] = f[j] => i = j}
        asc == {f \in perms : \A i \in 1..(n - 1) : t[f[i]].Score <= t[f[i + 1]].Score}
    IN  {[i \in 1..n |-> t[f[i]]] : f \in asc}

\* df.insert(0, "Rank", df.index + 1): the row at index i (0-based) has rank i + 1
insert_rank(t) ==
    [i \in 1..Len(t) |->
        [Rank |-> (i - 1) + 1, Player |-> t[i].Player, Score |-> t[i].Score]]

\* df["Pts. From 1st"] = df["Score"] - df.loc[0, "Score"]
pts_from_first(t) ==
    [i \in 1..Len(t) |->
        [Rank |-> t[i].Rank, Player |-> t[i].Player, Score |-> t[i].Score,
         PtsFrom1st |-> t[i].Score - t[1].Score]]

(***************************************************************************)
(* Cumulative scores on the (Player, Week) grid (lines 138-155).           *)
(***************************************************************************)
\* info["CumulativeScore"] = info.groupby("Player")["Score"].cumsum():
\* the running sum over the rows of the player in row order
cumsum(t) ==
    [i \in DOMAIN t |->
        [Player |-> t[i].Player, Week |-> t[i].Week, Score |-> t[i].Score,
         CumulativeScore |->
            SumScore(t, {j \in 1..i : t[j].Player = t[i].Player})]]

\* info["Week"] = info["Week"].astype(str); info["Player"] = info["Player"].str.strip():
\* a week label of the sheet is a string already, so str() returns it
normalize(t) ==
    [i \in DOMAIN t |->
        [Player |-> strip(t[i].Player), Week |-> t[i].Week, Score |-> t[i].Score,
         CumulativeScore |-> t[i].CumulativeScore]]

\* info[["Player", "Week", "CumulativeScore"]]
select_columns(t) ==
    [i \in DOMAIN t |->
        [Player |-> t[i].Player, Week |-> t[i].Week,
         CumulativeScore |-> t[i].CumulativeScore]]

\* drop_duplicates(subset=["Player", "Week"], keep="last")
RECURSIVE drop_duplicates(_)
drop_duplicates(t) ==
    IF t = <<>> THEN <<>>
    ELSE IF \E j \in 2..Len(t) :
                t[j].Player = t[1].Player /\ t[j].Week = t[1].Week
         THEN drop_duplicates(Tail(t))
         ELSE <<t[1]>> \o drop_duplicates(Tail(t))

\* list(itertools.product(players, weeks))
product(players, weeks) ==
    [k \in 1..(Len(players) * Len(weeks)) |->
        [Player |-> players[((k - 1) \div Len(weeks)) + 1],
         Week   |-> weeks[((k - 1) % Len(weeks)) + 1]]]

\* the merge followed by fillna(0)
merge_fill_zero(grid, tmp) ==
    [k \in DOMAIN grid |->
        LET m == {i \in DOMAIN tmp :
                    tmp[i].Player = grid[k].Player /\ tmp[i].Week = grid[k].Week}
        IN  [Player |-> grid[k].Player, Week |-> grid[k].Week,
             CumulativeScore |->
                IF m = {} THEN <<0>>
                ELSE <<tmp[CHOOSE i \in m : TRUE].CumulativeScore>>]]

\* pd.merge(grid, tmp, how="left", on=["Player", "Week"]); tmp has at most one
\* row per key, so every grid row yields one row, in grid order
merge(grid, tmp) ==
    [k \in DOMAIN grid |->
        LET m == {i \in DOMAIN tmp :
                    tmp[i].Player = grid[k].Player /\ tmp[i].Week = grid[k].Week}
        IN  [Player |-> grid[k].Player, Week |-> grid[k].Week,
             CumulativeScore |->
                IF m = {} THEN NaN
                ELSE <<tmp[CHOOSE i \in m : TRUE].CumulativeScore>>]]

\* line 155 left out: no forward fill
ffill_absent(t) ==
    [k \in DOMAIN t |->
        [Player |-> t[k].Player, Week |-> t[k].Week,
         CumulativeScore |-> t[k].CumulativeScore]]

\* full_cum.groupby("Player")["CumulativeScore"].ffill()
ffill(t) ==
    LET F[k \in DOMAIN t] ==
            IF notna(t[k].CumulativeScore) THEN t[k].CumulativeScore
            ELSE IF k > 1 /\ t[k - 1].Player = t[k].Player THEN F[k - 1]
            ELSE NaN
    IN  [k \in DOMAIN t |->
            [Player |-> t[k].Player, Week |-> t[k].Week,
             CumulativeScore |-> F[k]]]

\* sort_values(["Player", "Week"]): by Player, then by the position of Week in
\* the ordered Categorical built from WEEK_ORDER
RowBefore(a, b) ==
    \/ StrLess(a.Player, b.Player)
    \/ a.Player = b.Player /\ WeekIndex(a.Week) < WeekIndex(b.Week)

sort_player_week(t) == SortSeq(t, RowBefore)

(***************************************************************************)
(* Activity cutoff (lines 158-165).                                        *)
(***************************************************************************)
\* [WEEK_ORDER.index(str(w)) for w in x if str(w) in WEEK_ORDER] for player p
played_indexes(t, p) ==
    {WeekIndex(t[i].Week) : i \in {j \in DOMAIN t :
                                    t[j].Player = p /\ InWeekOrder(t[j].Week)}}

\* max() of a non-empty list
max(S) == CHOOSE x \in S : \A y \in S : y <= x

last_played_of(t) == [p \in unique(t) |-> max(played_indexes(t, p))]

\* line 165 left out: the columns are added, no score is cleared
cutoff_absent(t, last_played) ==
    [k \in DOMAIN t |->
        [Player |-> t[k].Player, Week |-> t[k].Week,
         CumulativeScore |-> t[k].CumulativeScore,
         week_idx |-> WeekIndex(t[k].Week),
         LastPlayed |-> last_played[t[k].Player]]]

\* lines 163-165: week_idx, LastPlayed, and NaN after the last played week
cutoff(t, last_played) ==
    [k \in DOMAIN t |->
        LET wi == WeekIndex(t[k].Week)
            lp == last_played[t[k].Player]
        IN  [Player |-> t[k].Player, Week |-> t[k].Week,
             CumulativeScore |-> IF wi > lp THEN NaN ELSE t[k].CumulativeScore,
             week_idx |-> wi, LastPlayed |-> lp]]

(***************************************************************************)
(* Weekly ranks (lines 168-180).                                           *)
(***************************************************************************)
\* Series.rank(method="dense", ascending=True)
rank_dense(xs) ==
    [i \in DOMAIN xs |->
        1 + Cardinality({xs[j] : j \in {m \in DOMAIN xs : xs[m] < xs[i]}})]

\* Series.rank(method="min", ascending=True): a value's rank is its first
\* position in the ascending arrangement of the values
rank_min(xs) ==
    Bind(SortSeq(xs, LAMBDA a, b : a < b),
         LAMBDA s : [i \in DOMAIN xs |->
                        CHOOSE k \in 1..Len(s) :
                            s[k] = xs[i] /\ (k = 1 \/ s[k - 1] # xs[i])])

\* the body of the loop over WEEK_ORDER: the rows of the week that have a
\* score, with their Rank
ranked_week(t, week) ==
    Bind(SelectSeq(t, LAMBDA r : r.Week = week /\ notna(r.CumulativeScore)),
         LAMBDA week_df :
            Bind(rank_min([i \in DOMAIN week_df |-> week_df[i].CumulativeScore[1]]),
                 LAMBDA rk :
                    [i \in DOMAIN week_df |->
                        [Player |-> week_df[i].Player, Week |-> week_df[i].Week,
                         CumulativeScore |-> week_df[i].CumulativeScore,
                         week_idx |-> week_df[i].week_idx,
                         LastPlayed |-> week_df[i].LastPlayed,
                         Rank |-> rk[i]]]))

\* pd.concat(out, ignore_index=True) over the weeks WEEK_ORDER[1..n]
RECURSIVE concat_weeks(_, _)
concat_weeks(t, n) ==
    IF n = 0 THEN <<>>
    ELSE concat_weeks(t, n - 1) \o ranked_week(t, WEEK_ORDER[n])

compute_weekly_ranks(t) == concat_weeks(t, Len(WEEK_ORDER))

(***************************************************************************)
(* The script, step by step.                                               *)
(***************************************************************************)
Init ==
    /\ raw \in UNION {[1..n -> SheetRows] : n \in 0..MaxEvents}
    /\ info = <<>>
    /\ df = <<>>
    /\ full_cum = <<>>
    /\ rankings = <<>>
    /\ pc = "read"
    /\ error = "none"

ReadInfo ==
    /\ pc = "read"
    /\ info' = read_info(raw)
    /\ pc' = "standings"
    /\ UNCHANGED <<raw, df, full_cum, rankings, error>>

SeasonStandings ==
    /\ pc = "standings"
    /\ \E totals \in {groupby_sum(info)} : \E s \in sort_values(totals) :
         IF Len(s) = 0
         THEN /\ df' = insert_rank(s)
              /\ error' = "KeyError"
              /\ pc' = "crashed"
         ELSE /\ df' = pts_from_first(insert_rank(s))
              /\ error' = error
              /\ pc' = "cumulative"
    /\ UNCHANGED <<raw, info, full_cum, rankings>>

CumulativeGrid ==
    /\ pc = "cumulative"
    /\ \E scored \in {cumsum(info)} : info' = normalize(scored)
    /\ \E players \in {sorted(unique(info'))} :
       \E grid \in {product(players, WEEK_ORDER)} :
       \E tmp \in {drop_duplicates(select_columns(info'))} :
       \E merged \in {sort_player_week(merge(grid, tmp))} :
          full_cum' = ffill(merged)
    /\ pc' = "cutoff"
    /\ UNCHANGED <<raw, df, rankings, error>>

ActivityCutoff ==
    /\ pc = "cutoff"
    /\ IF \E p \in unique(info) : played_indexes(info, p) = {}
       THEN /\ error' = "ValueError"
            /\ pc' = "crashed"
            /\ UNCHANGED full_cum
       ELSE /\ \E last_played \in {last_played_of(info)} :
                 full_cum' = cutoff(full_cum, last_played)
            /\ pc' = "ranks"
            /\ UNCHANGED error
    /\ UNCHANGED <<raw, info, df, rankings>>

WeeklyRanks ==
    /\ pc = "ranks"
    /\ \E ranked \in {compute_weekly_ranks(full_cum)} :
          rankings' = sort_player_week(ranked)
    /\ pc' = "done"
    /\ UNCHANGED <<raw, info, df, full_cum, error>>

Next ==
    \/ ReadInfo
    \/ SeasonStandings
    \/ CumulativeGrid
    \/ ActivityCutoff
    \/ WeeklyRanks

Spec == Init /\ [][Next]_vars

\* the same script on a sheet of three players
InitLeague ==
    /\ raw \in UNION {[1..n -> LeagueRows] : n \in 0..MaxEvents}
    /\ info = <<>>
    /\ df = <<>>
    /\ full_cum = <<>>
    /\ rankings = <<>>
    /\ pc = "read"
    /\ error = "none"

SpecLeague == InitLeague /\ [][Next]_vars

TypeOK ==
    /\ pc \in {"read", "standings", "cumulative", "cutoff", "ranks", "done", "crashed"}
    /\ error \in {"none", "KeyError", "ValueError"}
    /\ Len(raw) <= MaxEvents

(***************************************************************************)
(* What the properties speak of, taken from the sheet itself.              *)
(***************************************************************************)
\* the players of the sheet, by trimmed name
Names == {strip(raw[i].Player) : i \in DOMAIN raw}

\* the events of player p, and those whose week label is in WeekDomain
Events(p) == {i \in DOMAIN raw : strip(raw[i].Player) = p}

ValidEvents(p) == {i \in Events(p) : InWeekOrder(raw[i].Week)}

\* WeekDomain positions (0-based) at which p has an event
EventPositions(p) == {WeekIndex(raw[i].Week) : i \in ValidEvents(p)}

Least(S) == CHOOSE x \in S : \A y \in S : x <= y

Greatest(S) == CHOOSE x \in S : \A y \in S : y <= x

\* the players with an event in a week of WeekDomain
Ranked == {p \in Names : ValidEvents(p) # {}}

\* per player, the first and the last WeekDomain position with an event
FirstActive == [p \in Ranked |-> Bind(EventPositions(p), Least)]

LastActive == [p \in Ranked |-> Bind(EventPositions(p), Greatest)]

Positions == 0..(Len(WEEK_ORDER) - 1)

\* the rows of the rank trajectory for player p at WeekDomain position n
RankRows(p, n) ==
    {k \in DOMAIN rankings :
        rankings[k].Player = p /\ rankings[k].Week = WEEK_ORDER[n + 1]}

HasInvalidWeek == \E i \in DOMAIN raw : ~InWeekOrder(raw[i].Week)

Finished == pc = "done"

Terminated == pc \in {"done", "crashed"}

\* the standings table has been built (line 133 did not raise)
StandingsBuilt == pc \in {"cumulative", "cutoff", "ranks", "done"} \/ error = "ValueError"

(***************************************************************************)
(* C1: for every player p and every week w in which p has an event, the    *)
(* cumulative score of p at w used for ranking is the sum of the scores of *)
(* all of p's events whose WeekDomain position is at or before w, whatever *)
(* the order of the events in the input and also with several events in    *)
(* one week.                                                               *)
(***************************************************************************)
C1_CumulativeIsSumThroughWeek ==
    Finished =>
        \A p \in Names : \A n \in EventPositions(p) :
            \E k \in RankRows(p, n) :
                rankings[k].CumulativeScore =
                    <<SumScore(raw, {i \in ValidEvents(p) : WeekIndex(raw[i].Week) <= n})>>

(***************************************************************************)
(* C2: for every week and every player with a defined cumulative score at  *)
(* that week, the player's rank is 1 plus the number of players with a     *)
(* defined and strictly lower cumulative score at that week.               *)
(***************************************************************************)
C2_RankIsOnePlusStrictlyLower ==
    Finished =>
        \A k \in DOMAIN full_cum :
            notna(full_cum[k].CumulativeScore) =>
                \E r \in DOMAIN rankings :
                    /\ rankings[r].Player = full_cum[k].Player
                    /\ rankings[r].Week = full_cum[k].Week
                    /\ rankings[r].Rank =
                        1 + Cardinality({j \in DOMAIN full_cum :
                              /\ full_cum[j].Week = full_cum[k].Week
                              /\ notna(full_cum[j].CumulativeScore)
                              /\ full_cum[j].CumulativeScore[1]
                                    < full_cum[k].CumulativeScore[1]})

\* two players tied for the lowest score share rank 1 and a third has rank 3
C2_Witness ==
    /\ Finished
    /\ \E a, b, c \in DOMAIN rankings :
        /\ a # b
        /\ rankings[a].Week = rankings[b].Week
        /\ rankings[a].Week = rankings[c].Week
        /\ rankings[a].CumulativeScore = rankings[b].CumulativeScore
        /\ rankings[a].Rank = 1
        /\ rankings[b].Rank = 1
        /\ rankings[c].Rank = 3

(***************************************************************************)
(* C3: the rank trajectory has no row for (p, w) when w lies after the     *)
(* last week in which p has an event, and p is not counted when the other  *)
(* players are ranked at such a week.                                      *)
(***************************************************************************)
C3_NoRowAfterLastActive ==
    Finished =>
        \A last \in {LastActive} :
            /\ \A p \in DOMAIN last : \A n \in Positions :
                n > last[p] => RankRows(p, n) = {}
            /\ \A k \in DOMAIN rankings :
                rankings[k].Rank <=
                    Cardinality({q \in DOMAIN last :
                        last[q] >= WeekIndex(rankings[k].Week)})

\* one player stopped before Bowls, another is ranked at Bowls
C3_Witness ==
    /\ Finished
    /\ \E p, q \in Ranked :
        /\ p # q
        /\ LastActive[p] < WeekIndex("Bowls")
        /\ RankRows(p, WeekIndex("Bowls")) = {}
        /\ RankRows(q, WeekIndex("Bowls")) # {}

(***************************************************************************)
(* C4: at a week w without an event of p, after p's first event week and   *)
(* not after p's last, p has a rank row whose cumulative score is that of  *)
(* the nearest earlier week in which p has an event.                       *)
(***************************************************************************)
C4_ForwardFill ==
    Finished =>
        \A p \in Ranked : \A ep \in {EventPositions(p)} :
            \A n \in Positions \ ep :
                (Least(ep) < n /\ n <= Greatest(ep))
                => \A nearest \in {Greatest({m \in ep : m < n})} :
                    /\ Cardinality(RankRows(p, n)) = 1
                    /\ \A k \in RankRows(p, n) : \E j \in RankRows(p, nearest) :
                        /\ notna(rankings[k].CumulativeScore)
                        /\ rankings[k].CumulativeScore = rankings[j].CumulativeScore

\* a player with events in "Week 9" and "Bowls" has a row at "Week 10"
C4_Witness ==
    /\ Finished
    /\ \E p \in Names :
        /\ EventPositions(p) = {WeekIndex("Week 9"), WeekIndex("Bowls")}
        /\ RankRows(p, WeekIndex("Week 10")) # {}
        /\ RankRows(p, WeekIndex("Week 16")) # {}

(***************************************************************************)
(* C5: an event whose week label is not in WeekDomain is reported to the   *)
(* caller as an error; it is not silently dropped or folded into a valid   *)
(* week, and the computation does not crash.                               *)
(***************************************************************************)
C5_InvalidWeekReported ==
    (Terminated /\ HasInvalidWeek) =>
        /\ pc # "crashed"
        /\ error # "none"

(***************************************************************************)
(* C6: an empty event set finishes without an error, with an empty         *)
(* standings table and an empty rank trajectory.                           *)
(***************************************************************************)
C6_EmptyInputFinishes ==
    (raw = <<>> /\ pc \notin {"read", "standings"}) =>
        /\ pc # "crashed"
        /\ error = "none"
        /\ df = <<>>
        /\ rankings = <<>>

(***************************************************************************)
(* C7: the standings table has one row per distinct trimmed player with an *)
(* event, each with the sum of all of that player's scores, ordered by     *)
(* total ascending, the row at position i having rank i.                   *)
(***************************************************************************)
C7_StandingsRows ==
    StandingsBuilt =>
        /\ Len(df) = Cardinality(Names)
        /\ {df[i].Player : i \in DOMAIN df} = Names
        /\ \A i \in DOMAIN df :
            /\ df[i].Score = SumScore(raw, Events(df[i].Player))
            /\ df[i].Rank = i
            /\ i < Len(df) => df[i].Score <= df[i + 1].Score

\* both spellings of a player are in the sheet and two totals tie
C7_Witness ==
    /\ StandingsBuilt
    /\ \E i, j \in DOMAIN raw :
        /\ raw[i].Player # raw[j].Player
        /\ strip(raw[i].Player) = strip(raw[j].Player)
    /\ Len(df) = 2
    /\ df[1].Score = df[2].Score
    /\ df[1].Rank # df[2].Rank

(***************************************************************************)
(* C8: the rank-1 row's pointsFromFirst is 0 and every other row's is its  *)
(* total minus the rank-1 row's total, and is at least 0.                  *)
(***************************************************************************)
C8_PointsFromFirst ==
    StandingsBuilt =>
        \A i, j \in DOMAIN df :
            df[j].Rank = 1 =>
                /\ df[j].PtsFrom1st = 0
                /\ df[i].PtsFrom1st = df[i].Score - df[j].Score
                /\ df[i].PtsFrom1st >= 0

\* a row behind the leader
C8_Witness ==
    /\ StandingsBuilt
    /\ \E i, j \in DOMAIN df : df[j].Rank = 1 /\ df[i].PtsFrom1st > 0

(***************************************************************************)
(* C9: computing the standings and the rank trajectory leaves the event    *)
(* table as it was loaded: no column added, no value rewritten.            *)
(***************************************************************************)
C9_EventTableUnchanged == pc # "read" => info = read_info(raw)

(***************************************************************************)
(* C10: the rank trajectory has exactly one row for (p, w) when w lies     *)
(* between p's first and last event weeks inclusive and none otherwise,    *)
(* and only such players are counted when a week is ranked.                *)
(***************************************************************************)
C10_RowsExactlyWhileActive ==
    Finished =>
        \A first \in {FirstActive} : \A last \in {LastActive} :
            /\ \A p \in Names : \A n \in Positions :
                Cardinality(RankRows(p, n)) =
                    IF p \in Ranked /\ first[p] <= n /\ n <= last[p] THEN 1 ELSE 0
            /\ \A k \in DOMAIN rankings : \A n \in {WeekIndex(rankings[k].Week)} :
                rankings[k].Rank <=
                    Cardinality({q \in DOMAIN last : first[q] <= n /\ n <= last[q]})

\* one player starts at Bowls, another is ranked in "Week 9"
C10_Witness ==
    /\ Finished
    /\ \E p, q \in Ranked :
        /\ p # q
        /\ FirstActive[p] = WeekIndex("Bowls")
        /\ RankRows(p, WeekIndex("Week 9")) = {}
        /\ RankRows(p, WeekIndex("Bowls")) # {}
        /\ RankRows(q, WeekIndex("Week 9")) # {}
====
